---- MODULE Spec2Model ----
(***************************************************************************)
(* Model of the LibreOffice WASM converter wrapper                         *)
(* (src/src/lib/libreoffice/converter.ts).                                 *)
(*                                                                         *)
(* The wrapper runs on the JavaScript event loop: an async function runs   *)
(* without interruption up to its next await.  Every action below is one   *)
(* such uninterrupted segment of initialize(), convert() or destroy(), or  *)
(* one event of the opaque engine (WorkerBrowserConverter) or of the       *)
(* network.  Where an inner promise settles and the awaiting function      *)
(* resumes with no change of the wrapper's fields in between, the two      *)
(* segments are one action (the intermediate state equals the state        *)
(* before it in every field another call can read).                        *)
(***************************************************************************)
EXTENDS Integers, Sequences, FiniteSets, TLC

VARIABLES
    converter,      \* this.converter: 0 is null, otherwise an engine id
    initialized,    \* this.initialized
    initializing,   \* this.initializing
    calls,          \* every call made on the singleton, in call order
    engines,        \* every WorkerBrowserConverter constructed, in order
    isolated,       \* window.crossOriginIsolated
    hasSAB,         \* typeof SharedArrayBuffer !== 'undefined'
    converterInstance,  \* the module's singleton: 0 is null, else an instance id
    instances,      \* every LibreOfficeConverter the factory constructed
    factoryCalls    \* every getLibreOfficeConverter call: argument and result

factoryVars == <<converterInstance, instances, factoryCalls>>

vars == <<converter, initialized, initializing, calls, engines, isolated, hasSAB,
          factoryVars>>

----------------------------------------------------------------------------
(* Bounds                                                                  *)

MaxCalls == 3
MaxEngineEvents == 1
MaxFactoryCalls == 3
MaxNameLen == 4

----------------------------------------------------------------------------
(* Program constants                                                       *)

LIBREOFFICE_PATH == "/libreoffice-wasm/"
ASSET_VERSION == "20240212-3"

\* the list probed by checkEnvironment, in its order
files == <<"soffice.wasm", "soffice.data", "soffice.js", "soffice.worker.js",
           "browser.worker.global.js">>

\* an omitted argument
Undefined == "<undefined>"

\* the values JavaScript's || treats as false, among those a base path takes
Falsy(x) == x = Undefined \/ x = ""

\* constructor(basePath?): this.basePath = basePath || LIBREOFFICE_PATH
Constructor(arg) == [basePath |-> IF Falsy(arg) THEN LIBREOFFICE_PATH ELSE arg]

\* this.basePath of the singleton
basePath == instances[converterInstance].basePath

\* `${this.basePath}${file}?v=${ASSET_VERSION}`
AssetUrl(file) == basePath \o file \o "?v=" \o ASSET_VERSION

\* the options object handed to new WorkerBrowserConverter
EngineConfig ==
    [sofficeJs       |-> AssetUrl("soffice.js"),
     sofficeWasm     |-> AssetUrl("soffice.wasm"),
     sofficeData     |-> AssetUrl("soffice.data"),
     sofficeWorkerJs |-> AssetUrl("soffice.worker.js"),
     browserWorkerJs |-> AssetUrl("browser.worker.global.js"),
     verbose         |-> FALSE]

----------------------------------------------------------------------------
(* Inputs                                                                  *)

\* HTTP statuses a HEAD probe may return
Statuses == {200, 404}

\* Response.ok
ResOk(status) == status >= 200 /\ status <= 299

\* what fetch() delivers: a response, or a rejection with the browser's
\* network TypeError
ProbeOutcomes ==
    {[type |-> "response", status |-> s] : s \in Statuses}
        \cup {[type |-> "network", status |-> 0]}

NetworkErrorMessage == <<"Failed to fetch">>

\* events the engine may hand to its onProgress option
EngineInfos ==
    {[phase |-> "loading", percent |-> 3]}

\* the same and the engine's own report of readiness
EnginePhaseInfos == EngineInfos \cup {[phase |-> "ready", percent |-> 100]}

\* source files: the name as its characters, and a payload
Files ==
    {[name |-> <<"r", ".", "D", "o", "c">>, payload |-> "p1"],
     [name |-> <<"n", "o", "t", "e">>, payload |-> "p2"]}

\* source files of every name of up to MaxNameLen characters, with and
\* without dots and capitals
NameChars == {"a", "B", "."}
Names == UNION {[1..n -> NameChars] : n \in 0..MaxNameLen}
NamedFiles == {[name |-> n, payload |-> "p1"] : n \in Names}

OutputFormats == {"pdf"}

\* the same and a second target
TargetFormats == OutputFormats \cup {"docx"}

\* arguments of getLibreOfficeConverter
BasePathArgs == {Undefined, "", LIBREOFFICE_PATH, "/lo/", "/cdn/office/"}

----------------------------------------------------------------------------
(* Errors: the message is kept as the pieces of its template string        *)

NoError == [kind |-> "none", message |-> <<>>]

\* line 147
EnvironmentError(iso) ==
    [kind |-> "environment",
     message |-> <<"SharedArrayBuffer is not available (crossOriginIsolated=",
                   ToString(iso), ")">>]

\* line 178
HttpError(file, status) ==
    [kind |-> "asset",
     message |-> <<"Required file", file, "returned HTTP", ToString(status)>>]

\* the rejection of fetch()
FetchRejection == [kind |-> "fetch", message |-> NetworkErrorMessage]

\* e.message.startsWith('Required file')
StartsWithRequiredFile(e) ==
    e.message # <<>> /\ Head(e.message) = "Required file"

\* the catch block of the probe loop, lines 180-184
ProbeCatch(file, e) ==
    IF StartsWithRequiredFile(e)
    THEN e
    ELSE [kind |-> "asset",
          message |-> <<"Cannot fetch", file, "TypeError">> \o e.message]

\* the error a probe outcome makes checkEnvironment throw
ProbeError(file, outcome) ==
    IF outcome.type = "response"
    THEN ProbeCatch(file, HttpError(file, outcome.status))
    ELSE ProbeCatch(file, FetchRejection)

\* the probe loop without the res.ok test
ProbePassesAnyResponse(outcome) == outcome.type = "response"

\* a probe outcome lets the loop go on
ProbePasses(outcome) == outcome.type = "response" /\ ResOk(outcome.status)

\* line 196
NotInitializedError ==
    [kind |-> "notInitialized", message |-> <<"Converter not initialized">>]

\* this.converter.convert on a null handle, line 210
NullHandleError ==
    [kind |-> "typeError", message |-> <<"Cannot read properties of null">>]

\* errors raised by the engine itself
EngineConstructError == [kind |-> "engineConstruct", message |-> <<"constructor threw">>]
EngineBootError == [kind |-> "engineBoot", message |-> <<"engine initialize rejected">>]
EngineShutdownError == [kind |-> "engineShutdown", message |-> <<"engine destroy rejected">>]
EngineConvertError == [kind |-> "conversion", message |-> <<"engine convert rejected">>]

----------------------------------------------------------------------------
(* Progress events the wrapper itself emits                                *)

\* line 69
CheckingEvent == [phase |-> "loading", percent |-> 0,
                  message |-> <<"Checking environment...">>]
\* line 74
LoadingEvent == [phase |-> "loading", percent |-> 5,
                 message |-> <<"Loading conversion engine...">>]
\* line 110
ReadyEvent == [phase |-> "ready", percent |-> 100,
               message |-> <<"Conversion engine ready!">>]
\* lines 85-90
ForwardedEvent(info) ==
    [phase |-> info.phase, percent |-> info.percent,
     message |-> <<"Loading conversion engine (", ToString(info.percent), "%)...">>]

----------------------------------------------------------------------------
(* Call and engine records                                                 *)

NoFile == [name |-> <<>>, payload |-> ""]
NoRequest == [data |-> "", inputFormat |-> <<>>, outputFormat |-> "", filename |-> <<>>]
NoBlob == [data |-> <<>>, type |-> "", buffer |-> <<>>]

\* bootstrapping initialize() calls that have settled
SettledBootstraps ==
    Cardinality({c \in 1..Len(calls) : calls[c].role = "bootstrap"
                                          /\ calls[c].result # "pending"})

\* A call on the singleton.  op, role, pc, result and error are its control
\* state and its outcome; progressCallback is the local variable of line 66
\* (TRUE while it holds the caller's callback), delivered is what the
\* caller's callback has received, probes the URLs fetched and responses
\* what the network answered, eng the engine awaited (or constructed),
\* epoch the number of bootstraps that had settled when the call was made.
NewCall(op) ==
    [op |-> op, role |-> "", pc |-> "done", result |-> "pending",
     error |-> NoError, progressCallback |-> FALSE,
     delivered |-> <<>>, probes |-> <<>>, responses |-> <<>>, eng |-> 0,
     epoch |-> SettledBootstraps,
     file |-> NoFile, outputFormat |-> "", request |-> NoRequest,
     blob |-> NoBlob]

\* An engine: the call that constructed it, its options, the state of its
\* initialize() promise, and how often each primitive was invoked on it.
NewEngine(c) ==
    [by |-> c, config |-> EngineConfig, init |-> "pending",
     initCalls |-> 0, destroyCalls |-> 0, convertCalls |-> 0, emitted |-> 0]

CallIds == 1..Len(calls)
EngineIds == 1..Len(engines)

Resolve(call) == [call EXCEPT !.pc = "done", !.result = "resolved"]
Reject(call, e) == [call EXCEPT !.pc = "done", !.result = "rejected", !.error = e]

\* progressCallback?.(event)
Deliver(call, event) ==
    IF call.progressCallback
    THEN [call EXCEPT !.delivered = Append(@, event)]
    ELSE call

\* a probe of the bare file, without the version query
IssueProbeUnversioned(call, i) ==
    [call EXCEPT !.probes = Append(@, basePath \o files[i])]

\* fetch(url, { method: 'HEAD' }) for the i-th file
IssueProbe(call, i) == [call EXCEPT !.probes = Append(@, AssetUrl(files[i]))]

TypeOK ==
    /\ converter \in 0..Len(engines)
    /\ initialized \in BOOLEAN
    /\ initializing \in BOOLEAN
    /\ isolated \in BOOLEAN
    /\ hasSAB \in BOOLEAN
    /\ Len(calls) <= MaxCalls
    /\ \A c \in CallIds :
          /\ calls[c].op \in {"initialize", "convert", "destroy"}
          /\ calls[c].result \in {"pending", "resolved", "rejected"}
          /\ (calls[c].pc = "done") = (calls[c].result # "pending")

\* The singleton as getLibreOfficeConverter() has just created it
Init ==
    /\ converter = 0
    /\ initialized = FALSE
    /\ initializing = FALSE
    /\ calls = <<>>
    /\ engines = <<>>
    /\ isolated \in BOOLEAN
    /\ hasSAB \in BOOLEAN
    /\ converterInstance = 1
    /\ instances = <<Constructor(Undefined)>>
    /\ factoryCalls = <<[basePath |-> Undefined, returned |-> 1]>>

----------------------------------------------------------------------------
(* initialize(onProgress?)                                                 *)

\* an early return that still reports readiness to the callback
InitializeNoOpNotifies(call) ==
    /\ initialized
    /\ calls' = Append(calls, Resolve(Deliver([call EXCEPT !.role = "noop"],
                                               ReadyEvent)))
    /\ UNCHANGED <<converter, initialized, initializing, engines, isolated, hasSAB, factoryVars>>

\* line 56: already initialized, return
InitializeNoOp(call) ==
    /\ initialized
    /\ calls' = Append(calls, Resolve([call EXCEPT !.role = "noop"]))
    /\ UNCHANGED <<converter, initialized, initializing, engines, isolated, hasSAB, factoryVars>>

\* lines 58-60: another initialization is in flight, start polling
InitializeWait(call) ==
    /\ ~initialized
    /\ initializing
    /\ calls' = Append(calls, [call EXCEPT !.role = "waiter", !.pc = "polling"])
    /\ UNCHANGED <<converter, initialized, initializing, engines, isolated, hasSAB, factoryVars>>

\* a bootstrap that does not look at the in-flight flag
InitializeStartUnguarded(call) ==
    /\ ~initialized
    /\ initializing' = TRUE
    /\ LET c0 == Deliver([call EXCEPT !.role = "bootstrap"], CheckingEvent)
       IN  IF ~isolated \/ ~hasSAB
           THEN calls' = Append(calls, [c0 EXCEPT !.pc = "envThrown"])
           ELSE calls' = Append(calls, IssueProbe([c0 EXCEPT !.pc = "probing"], 1))
    /\ UNCHANGED <<converter, initialized, engines, isolated, hasSAB, factoryVars>>

\* an environment check that tests only crossOriginIsolated
InitializeStartIgnoresSAB(call) ==
    /\ ~initialized
    /\ ~initializing
    /\ initializing' = TRUE
    /\ LET c0 == Deliver([call EXCEPT !.role = "bootstrap"], CheckingEvent)
       IN  IF ~isolated
           THEN calls' = Append(calls, [c0 EXCEPT !.pc = "envThrown"])
           ELSE calls' = Append(calls, IssueProbe([c0 EXCEPT !.pc = "probing"], 1))
    /\ UNCHANGED <<converter, initialized, engines, isolated, hasSAB, factoryVars>>

\* lines 65-72 and the synchronous head of checkEnvironment (lines 123-166):
\* set the flag, report 0%, test the environment, and either throw or issue
\* the first probe
InitializeStart(call) ==
    /\ ~initialized
    /\ ~initializing
    /\ initializing' = TRUE
    /\ LET c0 == Deliver([call EXCEPT !.role = "bootstrap"], CheckingEvent)
       IN  IF ~isolated \/ ~hasSAB
           THEN calls' = Append(calls, [c0 EXCEPT !.pc = "envThrown"])
           ELSE calls' = Append(calls, IssueProbe([c0 EXCEPT !.pc = "probing"], 1))
    /\ UNCHANGED <<converter, initialized, engines, isolated, hasSAB, factoryVars>>

\* Every caller passes a callback: a call without one changes the
\* converter exactly as a call whose callback ignores its events.
InitializeCall ==
    /\ Len(calls) < MaxCalls
    /\ LET call == [NewCall("initialize") EXCEPT !.progressCallback = TRUE]
       IN  \/ InitializeNoOp(call)
           \/ InitializeWait(call)
           \/ InitializeStart(call)

\* a waiting caller that is told of readiness when its polling ends
PollTickNotifies(c) ==
    /\ calls[c].op = "initialize"
    /\ calls[c].pc = "polling"
    /\ ~initializing
    /\ calls' = [calls EXCEPT ![c] =
                    Resolve(IF initialized THEN Deliver(@, ReadyEvent) ELSE @)]
    /\ UNCHANGED <<converter, initialized, initializing, engines, isolated, hasSAB, factoryVars>>

\* lines 59-62: the 100 ms timer fires and the flag is clear: return.  (A
\* tick that finds the flag set only starts the next timer and changes
\* nothing.)
PollTick(c) ==
    /\ calls[c].op = "initialize"
    /\ calls[c].pc = "polling"
    /\ ~initializing
    /\ calls' = [calls EXCEPT ![c] = Resolve(@)]
    /\ UNCHANGED <<converter, initialized, initializing, engines, isolated, hasSAB, factoryVars>>

\* lines 72, 114-116: the environment error reaches initialize(); finally
EnvironmentRejected(c) ==
    /\ calls[c].op = "initialize"
    /\ calls[c].pc = "envThrown"
    /\ initializing' = FALSE
    /\ calls' = [calls EXCEPT ![c] = Reject(@, EnvironmentError(isolated))]
    /\ UNCHANGED <<converter, initialized, engines, isolated, hasSAB, factoryVars>>

\* lines 74-103: report 5%, construct the engine, start its initialize()
ConstructEngine(c, call, throws) ==
    LET c5 == Deliver(call, LoadingEvent)
    IN  IF throws
        THEN /\ initializing' = FALSE
             /\ calls' = [calls EXCEPT ![c] = Reject(c5, EngineConstructError)]
             /\ UNCHANGED <<converter, engines>>
        ELSE /\ engines' = Append(engines,
                              [NewEngine(c) EXCEPT !.initCalls = 1])
             /\ converter' = Len(engines) + 1
             /\ calls' = [calls EXCEPT ![c] =
                              [c5 EXCEPT !.pc = "booting", !.eng = Len(engines) + 1]]
             /\ UNCHANGED initializing

\* lines 162-187: the response to the pending probe arrives
ProbeResponse(c) ==
    /\ calls[c].op = "initialize"
    /\ calls[c].pc = "probing"
    /\ \E outcome \in ProbeOutcomes, throws \in BOOLEAN :
          LET i == Len(calls[c].probes)
              call == [calls[c] EXCEPT !.responses = Append(@, outcome)]
          IN  IF ~ProbePasses(outcome)
              THEN /\ ~throws
                   /\ initializing' = FALSE
                   /\ calls' = [calls EXCEPT ![c] =
                                    Reject(call, ProbeError(files[i], outcome))]
                   /\ UNCHANGED <<converter, engines>>
              ELSE IF i < Len(files)
              THEN /\ ~throws
                   /\ calls' = [calls EXCEPT ![c] = IssueProbe(call, i + 1)]
                   /\ UNCHANGED <<converter, engines, initializing>>
              ELSE ConstructEngine(c, call, throws)
    /\ UNCHANGED <<initialized, isolated, hasSAB, factoryVars>>

\* the same without the finally block: a rejection leaves the flag set
EngineInitializeSettlesNoFinally(c) ==
    /\ calls[c].op = "initialize"
    /\ calls[c].pc = "booting"
    /\ \E ok \in BOOLEAN :
          LET e == calls[c].eng
          IN  /\ engines' = [engines EXCEPT ![e].init =
                                 IF ok THEN "resolved" ELSE "rejected"]
              /\ IF ok
                 THEN /\ initialized' = TRUE
                      /\ calls' = [calls EXCEPT ![c] =
                             [Deliver(@, ReadyEvent) EXCEPT !.pc = "notifying"]]
                 ELSE /\ UNCHANGED initialized
                      /\ calls' = [calls EXCEPT ![c] = Reject(@, EngineBootError)]
    /\ UNCHANGED <<converter, initializing, isolated, hasSAB, factoryVars>>

\* lines 103-110 and 114-116: the engine's initialize() settles.  On
\* success the flag is set and the caller's callback is invoked with the
\* ready event; the callback runs inside initialize(), before line 113 and
\* before the finally block.  On failure the finally block runs at once.
EngineInitializeSettles(c) ==
    /\ calls[c].op = "initialize"
    /\ calls[c].pc = "booting"
    /\ \E ok \in BOOLEAN :
          LET e == calls[c].eng
          IN  /\ engines' = [engines EXCEPT ![e].init =
                                 IF ok THEN "resolved" ELSE "rejected"]
              /\ IF ok
                 THEN /\ initialized' = TRUE
                      /\ calls' = [calls EXCEPT ![c] =
                             [Deliver(@, ReadyEvent) EXCEPT !.pc = "notifying"]]
                      /\ UNCHANGED initializing
                 ELSE /\ UNCHANGED initialized
                      /\ initializing' = FALSE
                      /\ calls' = [calls EXCEPT ![c] = Reject(@, EngineBootError)]
    /\ UNCHANGED <<converter, isolated, hasSAB, factoryVars>>

\* the same, keeping the callback after completion (line 113 missing)
ReadyCallbackReturnsKeepsCallback(c) ==
    /\ calls[c].op = "initialize"
    /\ calls[c].pc = "notifying"
    /\ initializing' = FALSE
    /\ calls' = [calls EXCEPT ![c] = Resolve(@)]
    /\ UNCHANGED <<converter, initialized, engines, isolated, hasSAB, factoryVars>>

\* lines 110-116: the caller's callback returns from the ready event; the
\* callback is dropped, the finally block clears the flag, the call resolves
ReadyCallbackReturns(c) ==
    /\ calls[c].op = "initialize"
    /\ calls[c].pc = "notifying"
    /\ initializing' = FALSE
    /\ calls' = [calls EXCEPT ![c] = Resolve([@ EXCEPT !.progressCallback = FALSE])]
    /\ UNCHANGED <<converter, initialized, engines, isolated, hasSAB, factoryVars>>

\* no callback of the caller is running: the event loop can take the next
\* task.  While the ready callback runs, only what the callback itself
\* calls on the singleton can happen.
EventLoopIdle == \A c \in CallIds : calls[c].pc # "notifying"

\* lines 83-92: the engine reports progress through the onProgress option,
\* with an event out of infos
EngineProgressWith(e, infos) ==
    /\ engines[e].emitted < MaxEngineEvents
    /\ \E info \in infos :
          LET c == engines[e].by
          IN  /\ engines' = [engines EXCEPT ![e].emitted = @ + 1]
              /\ IF calls[c].progressCallback /\ ~initialized
                 THEN calls' = [calls EXCEPT ![c].delivered =
                                    Append(@, ForwardedEvent(info))]
                 ELSE UNCHANGED calls
    /\ UNCHANGED <<converter, initialized, initializing, isolated, hasSAB, factoryVars>>

EngineProgress(e) == EngineProgressWith(e, EngineInfos)

\* lines 190-192
isReady == initialized /\ converter # 0

----------------------------------------------------------------------------
(* destroy()                                                               *)

\* lines 244-248: with a handle, ask the engine to shut down and wait;
\* without one, clear the fields at once
DestroyCall ==
    /\ Len(calls) < MaxCalls
    /\ LET call == NewCall("destroy")
       IN  IF converter # 0
           THEN /\ engines' = [engines EXCEPT ![converter].destroyCalls = @ + 1]
                /\ calls' = Append(calls, [call EXCEPT !.pc = "destroying",
                                                       !.eng = converter])
                /\ UNCHANGED <<converter, initialized>>
           ELSE /\ converter' = 0
                /\ initialized' = FALSE
                /\ calls' = Append(calls, Resolve(call))
                /\ UNCHANGED engines
    /\ UNCHANGED <<initializing, isolated, hasSAB, factoryVars>>

\* lines 245-248: the engine's destroy() settles
EngineDestroySettles(c) ==
    /\ calls[c].op = "destroy"
    /\ calls[c].pc = "destroying"
    /\ \E ok \in BOOLEAN :
          IF ok
          THEN /\ converter' = 0
               /\ initialized' = FALSE
               /\ calls' = [calls EXCEPT ![c] = Resolve(@)]
          ELSE /\ calls' = [calls EXCEPT ![c] = Reject(@, EngineShutdownError)]
               /\ UNCHANGED <<converter, initialized>>
    /\ UNCHANGED <<initializing, engines, isolated, hasSAB, factoryVars>>

----------------------------------------------------------------------------
(* convert(file, outputFormat)                                             *)

Upper == <<"A", "B", "C", "D", "E", "F", "G", "H", "I", "J", "K", "L", "M",
           "N", "O", "P", "Q", "R", "S", "T", "U", "V", "W", "X", "Y", "Z">>
Lower == <<"a", "b", "c", "d", "e", "f", "g", "h", "i", "j", "k", "l", "m",
           "n", "o", "p", "q", "r", "s", "t", "u", "v", "w", "x", "y", "z">>

\* String.prototype.toLowerCase, one character
LowerChar(ch) ==
    IF \E i \in 1..Len(Upper) : Upper[i] = ch
    THEN Lower[CHOOSE i \in 1..Len(Upper) : Upper[i] = ch]
    ELSE ch

ToLowerCase(str) == [i \in 1..Len(str) |-> LowerChar(str[i])]

\* name.split('.').pop(): the text after the last dot, the whole name when
\* it has no dot
LastSegment(str) ==
    LET dots == {i \in 1..Len(str) : str[i] = "."}
    IN  IF dots = {}
        THEN str
        ELSE LET last == CHOOSE i \in dots : \A j \in dots : j <= i
             IN  SubSeq(str, last + 1, Len(str))

\* line 205: file.name.split('.').pop()?.toLowerCase() || ''
Ext(name) == ToLowerCase(LastSegment(name))

\* the engine's result for a request, produced in the engine's own buffer
EngineResult(c, request) ==
    [data |-> <<"converted", request.data, request.inputFormat,
                request.outputFormat, request.filename>>,
     mimeType |-> "application/" \o request.outputFormat,
     buffer |-> <<"engine", c>>]

\* a wrapper that hands the engine's own buffer to the caller
CopyToBlobAliases(c, result) ==
    [data |-> result.data, type |-> result.mimeType, buffer |-> result.buffer]

\* lines 219-220: new Blob([new Uint8Array(result.data)], { type })
CopyToBlob(c, result) ==
    [data |-> result.data, type |-> result.mimeType, buffer |-> <<"copy", c>>]

\* lines 195-203: reject without a handle, otherwise read the file; the
\* file is one of sources, the output format one of formats
ConvertCallOf(sources, formats) ==
    /\ Len(calls) < MaxCalls
    /\ \E file \in sources, outputFormat \in formats :
          LET call == [NewCall("convert") EXCEPT
                          !.file = file, !.outputFormat = outputFormat]
          IN  IF converter = 0
              THEN calls' = Append(calls, Reject(call, NotInitializedError))
              ELSE calls' = Append(calls, [call EXCEPT !.pc = "reading"])
    /\ UNCHANGED <<converter, initialized, initializing, engines, isolated, hasSAB, factoryVars>>

ConvertCallTo(formats) == ConvertCallOf(Files, formats)

ConvertCall == ConvertCallTo(OutputFormats)

\* a wrapper that keeps the file being converted in one shared slot: the
\* request is built from the file of the latest convert() call
ArrayBufferReadyShared(c) ==
    /\ calls[c].op = "convert"
    /\ calls[c].pc = "reading"
    /\ LET latest == CHOOSE d \in 1..Len(calls) :
                        /\ calls[d].op = "convert"
                        /\ \A x \in 1..Len(calls) :
                              calls[x].op = "convert" => x <= d
           request == [data |-> calls[latest].file.payload,
                       inputFormat |-> Ext(calls[latest].file.name),
                       outputFormat |-> calls[latest].outputFormat,
                       filename |-> calls[latest].file.name]
       IN  IF converter = 0
           THEN /\ calls' = [calls EXCEPT ![c] = Reject(@, NullHandleError)]
                /\ UNCHANGED engines
           ELSE /\ engines' = [engines EXCEPT ![converter].convertCalls = @ + 1]
                /\ calls' = [calls EXCEPT ![c] =
                                [@ EXCEPT !.pc = "converting", !.eng = converter,
                                          !.request = request]]
    /\ UNCHANGED <<converter, initialized, initializing, isolated, hasSAB, factoryVars>>

\* lines 203-213: the file's bytes are there; derive the input format and
\* call the engine's convert on the handle as it is now
ArrayBufferReady(c) ==
    /\ calls[c].op = "convert"
    /\ calls[c].pc = "reading"
    /\ LET request == [data |-> calls[c].file.payload,
                       inputFormat |-> Ext(calls[c].file.name),
                       outputFormat |-> calls[c].outputFormat,
                       filename |-> calls[c].file.name]
       IN  IF converter = 0
           THEN /\ calls' = [calls EXCEPT ![c] = Reject(@, NullHandleError)]
                /\ UNCHANGED engines
           ELSE /\ engines' = [engines EXCEPT ![converter].convertCalls = @ + 1]
                /\ calls' = [calls EXCEPT ![c] =
                                [@ EXCEPT !.pc = "converting", !.eng = converter,
                                          !.request = request]]
    /\ UNCHANGED <<converter, initialized, initializing, isolated, hasSAB, factoryVars>>

\* a wrapper that drops to the uninitialized state when a conversion fails
EngineConvertSettlesResets(c) ==
    /\ calls[c].op = "convert"
    /\ calls[c].pc = "converting"
    /\ \E ok \in BOOLEAN :
          IF ok
          THEN /\ calls' = [calls EXCEPT ![c] =
                     Resolve([@ EXCEPT !.blob =
                                 CopyToBlob(c, EngineResult(c, calls[c].request))])]
               /\ UNCHANGED initialized
          ELSE /\ calls' = [calls EXCEPT ![c] = Reject(@, EngineConvertError)]
               /\ initialized' = FALSE
    /\ UNCHANGED <<converter, initializing, engines, isolated, hasSAB, factoryVars>>

\* a wrapper that gives up the engine handle when a conversion fails
EngineConvertSettlesDropsHandle(c) ==
    /\ calls[c].op = "convert"
    /\ calls[c].pc = "converting"
    /\ \E ok \in BOOLEAN :
          IF ok
          THEN /\ calls' = [calls EXCEPT ![c] =
                     Resolve([@ EXCEPT !.blob =
                                 CopyToBlob(c, EngineResult(c, calls[c].request))])]
               /\ UNCHANGED converter
          ELSE /\ calls' = [calls EXCEPT ![c] = Reject(@, EngineConvertError)]
               /\ converter' = 0
    /\ UNCHANGED <<initialized, initializing, engines, isolated, hasSAB, factoryVars>>

\* lines 210-224: the engine's convert() settles
EngineConvertSettles(c) ==
    /\ calls[c].op = "convert"
    /\ calls[c].pc = "converting"
    /\ \E ok \in BOOLEAN :
          IF ok
          THEN calls' = [calls EXCEPT ![c] =
                   Resolve([@ EXCEPT !.blob =
                               CopyToBlob(c, EngineResult(c, calls[c].request))])]
          ELSE calls' = [calls EXCEPT ![c] = Reject(@, EngineConvertError)]
    /\ UNCHANGED <<converter, initialized, initializing, engines, isolated, hasSAB, factoryVars>>

----------------------------------------------------------------------------

Next ==
    \/ InitializeCall
    \/ DestroyCall
    \/ ConvertCall
    \/ \E c \in CallIds : ReadyCallbackReturns(c)
    \/ \E c \in CallIds : EventLoopIdle /\ PollTick(c)
    \/ \E c \in CallIds : EventLoopIdle /\ EnvironmentRejected(c)
    \/ \E c \in CallIds : EventLoopIdle /\ ProbeResponse(c)
    \/ \E c \in CallIds : EventLoopIdle /\ EngineInitializeSettles(c)
    \/ \E c \in CallIds : EventLoopIdle /\ EngineDestroySettles(c)
    \/ \E c \in CallIds : EventLoopIdle /\ ArrayBufferReady(c)
    \/ \E c \in CallIds : EventLoopIdle /\ EngineConvertSettles(c)
    \/ \E e \in EngineIds : EventLoopIdle /\ EngineProgress(e)

Spec == Init /\ [][Next]_vars

----------------------------------------------------------------------------
(* One client that awaits every call before it makes the next              *)

\* no call is pending
Quiescent == \A c \in CallIds : calls[c].result # "pending"

NextSequential ==
    \/ Quiescent /\ InitializeCall
    \/ Quiescent /\ DestroyCall
    \/ Quiescent /\ ConvertCall
    \/ \E c \in CallIds : ReadyCallbackReturns(c)
    \/ \E c \in CallIds : EventLoopIdle /\ EnvironmentRejected(c)
    \/ \E c \in CallIds : EventLoopIdle /\ ProbeResponse(c)
    \/ \E c \in CallIds : EventLoopIdle /\ EngineInitializeSettles(c)
    \/ \E c \in CallIds : EventLoopIdle /\ EngineDestroySettles(c)
    \/ \E c \in CallIds : EventLoopIdle /\ ArrayBufferReady(c)
    \/ \E c \in CallIds : EventLoopIdle /\ EngineConvertSettles(c)
    \/ \E e \in EngineIds : EventLoopIdle /\ EngineProgress(e)

SpecSequential == Init /\ [][NextSequential]_vars

----------------------------------------------------------------------------
(* Initialization and teardown alone, with an engine that also reports its *)
(* own readiness                                                           *)

NextProgress ==
    \/ InitializeCall
    \/ DestroyCall
    \/ \E c \in CallIds : ReadyCallbackReturns(c)
    \/ \E c \in CallIds : EventLoopIdle /\ PollTick(c)
    \/ \E c \in CallIds : EventLoopIdle /\ EnvironmentRejected(c)
    \/ \E c \in CallIds : EventLoopIdle /\ ProbeResponse(c)
    \/ \E c \in CallIds : EventLoopIdle /\ EngineInitializeSettles(c)
    \/ \E c \in CallIds : EventLoopIdle /\ EngineDestroySettles(c)
    \/ \E e \in EngineIds :
          EventLoopIdle /\ EngineProgressWith(e, EnginePhaseInfos)

SpecProgress == Init /\ [][NextProgress]_vars

----------------------------------------------------------------------------
(* Conversions on the converter of one initialize() call, with two output  *)
(* formats                                                                 *)

NextConvert ==
    \/ Len(calls) = 0 /\ InitializeCall
    \/ Len(calls) > 0 /\ ConvertCallTo(TargetFormats)
    \/ \E c \in CallIds : ReadyCallbackReturns(c)
    \/ \E c \in CallIds : EventLoopIdle /\ EnvironmentRejected(c)
    \/ \E c \in CallIds : EventLoopIdle /\ ProbeResponse(c)
    \/ \E c \in CallIds : EventLoopIdle /\ EngineInitializeSettles(c)
    \/ \E c \in CallIds : EventLoopIdle /\ ArrayBufferReady(c)
    \/ \E c \in CallIds : EventLoopIdle /\ EngineConvertSettles(c)

SpecConvert == Init /\ [][NextConvert]_vars

----------------------------------------------------------------------------
(* One conversion on the converter of one initialize() call, of a file of  *)
(* any name                                                                *)

NextExt ==
    \/ Len(calls) = 0 /\ InitializeCall
    \/ Len(calls) = 1 /\ ConvertCallOf(NamedFiles, OutputFormats)
    \/ \E c \in CallIds : ReadyCallbackReturns(c)
    \/ \E c \in CallIds : EventLoopIdle /\ EnvironmentRejected(c)
    \/ \E c \in CallIds : EventLoopIdle /\ ProbeResponse(c)
    \/ \E c \in CallIds : EventLoopIdle /\ EngineInitializeSettles(c)
    \/ \E c \in CallIds : EventLoopIdle /\ ArrayBufferReady(c)
    \/ \E c \in CallIds : EventLoopIdle /\ EngineConvertSettles(c)

SpecExt == Init /\ [][NextExt]_vars

----------------------------------------------------------------------------
(* Initialization and teardown under a fair event loop: a bootstrap that   *)
(* can take its next step takes it (the network answers, the engine's      *)
(* promises settle, the caller's callback returns), and the 100 ms timer   *)
(* of every polling caller keeps firing.                                   *)

NextLive ==
    \/ InitializeCall
    \/ DestroyCall
    \/ \E c \in CallIds : ReadyCallbackReturns(c)
    \/ \E c \in CallIds : EventLoopIdle /\ PollTick(c)
    \/ \E c \in CallIds : EventLoopIdle /\ EnvironmentRejected(c)
    \/ \E c \in CallIds : EventLoopIdle /\ ProbeResponse(c)
    \/ \E c \in CallIds : EventLoopIdle /\ EngineInitializeSettles(c)
    \/ \E c \in CallIds : EventLoopIdle /\ EngineDestroySettles(c)

Fairness ==
    \A c \in 1..MaxCalls :
        /\ WF_vars(c \in CallIds /\ ReadyCallbackReturns(c))
        /\ WF_vars(c \in CallIds /\ EventLoopIdle /\ PollTick(c))
        /\ WF_vars(c \in CallIds /\ EventLoopIdle /\ EnvironmentRejected(c))
        /\ WF_vars(c \in CallIds /\ EventLoopIdle /\ ProbeResponse(c))
        /\ WF_vars(c \in CallIds /\ EventLoopIdle /\ EngineInitializeSettles(c))

SpecLive == Init /\ [][NextLive]_vars /\ Fairness

----------------------------------------------------------------------------
(* Initialization of a singleton the factory created with any base path    *)

InitAssets ==
    /\ converter = 0
    /\ initialized = FALSE
    /\ initializing = FALSE
    /\ calls = <<>>
    /\ engines = <<>>
    /\ isolated \in BOOLEAN
    /\ hasSAB \in BOOLEAN
    /\ converterInstance = 1
    /\ \E arg \in BasePathArgs :
          /\ instances = <<Constructor(arg)>>
          /\ factoryCalls = <<[basePath |-> arg, returned |-> 1]>>

NextAssets ==
    \/ InitializeCall
    \/ \E c \in CallIds : ReadyCallbackReturns(c)
    \/ \E c \in CallIds : EventLoopIdle /\ PollTick(c)
    \/ \E c \in CallIds : EventLoopIdle /\ EnvironmentRejected(c)
    \/ \E c \in CallIds : EventLoopIdle /\ ProbeResponse(c)
    \/ \E c \in CallIds : EventLoopIdle /\ EngineInitializeSettles(c)

SpecAssets == InitAssets /\ [][NextAssets]_vars

----------------------------------------------------------------------------
(* The factory                                                             *)

\* a factory that constructs again when it is given another base path
GetLibreOfficeConverterRecreates(arg) ==
    /\ Len(factoryCalls) < MaxFactoryCalls
    /\ IF converterInstance = 0
          \/ (~Falsy(arg) /\ instances[converterInstance].basePath # arg)
       THEN /\ instances' = Append(instances, Constructor(arg))
            /\ converterInstance' = Len(instances) + 1
       ELSE UNCHANGED <<instances, converterInstance>>
    /\ factoryCalls' = Append(factoryCalls,
                              [basePath |-> arg, returned |-> converterInstance'])
    /\ UNCHANGED <<converter, initialized, initializing, calls, engines,
                   isolated, hasSAB>>

\* lines 252-257: getLibreOfficeConverter(basePath?)
GetLibreOfficeConverter(arg) ==
    /\ Len(factoryCalls) < MaxFactoryCalls
    /\ IF converterInstance = 0
       THEN /\ instances' = Append(instances, Constructor(arg))
            /\ converterInstance' = Len(instances) + 1
       ELSE UNCHANGED <<instances, converterInstance>>
    /\ factoryCalls' = Append(factoryCalls,
                              [basePath |-> arg, returned |-> converterInstance'])
    /\ UNCHANGED <<converter, initialized, initializing, calls, engines,
                   isolated, hasSAB>>

\* line 43: the module as loaded, no converter constructed yet
InitFactory ==
    /\ converterInstance = 0
    /\ instances = <<>>
    /\ factoryCalls = <<>>
    /\ converter = 0
    /\ initialized = FALSE
    /\ initializing = FALSE
    /\ calls = <<>>
    /\ engines = <<>>
    /\ isolated = TRUE
    /\ hasSAB = TRUE

NextFactory == \E arg \in BasePathArgs : GetLibreOfficeConverter(arg)

SpecFactory == InitFactory /\ [][NextFactory]_vars

----------------------------------------------------------------------------
(* Vocabulary of the properties                                            *)

Range(seq) == {seq[i] : i \in DOMAIN seq}
Settled(c) == calls[c].result # "pending"
InitializeCalls == {c \in CallIds : calls[c].op = "initialize"}
DestroyCalls == {c \in CallIds : calls[c].op = "destroy"}
Bootstraps == {c \in CallIds : calls[c].role = "bootstrap"}
EnginesBy(S) == {e \in EngineIds : engines[e].by \in S}

\* initialize() calls made before any bootstrap had settled: the concurrent
\* calls on the fresh singleton
FreshInitializeCalls == {c \in InitializeCalls : calls[c].epoch = 0}

\* the bootstraps started before call d, and whether one of them was still
\* in flight when d was made
BootstrapsBefore(d) == {b \in Bootstraps : b < d}
InFlightAtCall(d) == Cardinality(BootstrapsBefore(d)) > calls[d].epoch

\* this step makes a new call of the given operation
NewCallOf(op) ==
    /\ Len(calls') = Len(calls) + 1
    /\ calls'[Len(calls')].op = op
TheNewCall == calls'[Len(calls')]

\* this step settles call c
SettlesIn(c) ==
    /\ calls'[c].result # "pending"
    /\ c \in CallIds => calls[c].result = "pending"

----------------------------------------------------------------------------
(* C1: however many initialize() calls are made on the fresh singleton     *)
(* before the first bootstrap settles, only one of them bootstraps: at no  *)
(* moment are two engine initialize() promises pending, and with a passing *)
(* environment and no destroy() exactly one engine is constructed and its  *)
(* initialize() invoked exactly once for all of these calls.               *)
C1_SingleBootstrap ==
    /\ Cardinality({e \in EngineIds : engines[e].init = "pending"}) <= 1
    /\ Cardinality({c \in InitializeCalls :
                       calls[c].pc \in {"envThrown", "probing", "booting",
                                         "notifying"}}) <= 1
    /\ (DestroyCalls = {} /\ isolated /\ hasSAB) =>
          LET boots == FreshInitializeCalls \cap Bootstraps
              built == EnginesBy(FreshInitializeCalls)
          IN  /\ FreshInitializeCalls # {} => Cardinality(boots) = 1
              /\ Cardinality(built) <= 1
              /\ \A e \in built : engines[e].initCalls = 1
              /\ \A b \in boots :
                    (calls[b].pc = "booting" \/ calls[b].result = "resolved"
                        \/ calls[b].error = EngineBootError)
                    => Cardinality(built) = 1

\* three concurrent calls, all settled, one engine booted
C1_Witness ==
    /\ DestroyCalls = {} /\ isolated /\ hasSAB
    /\ Cardinality(FreshInitializeCalls) >= 3
    /\ \A c \in FreshInitializeCalls : Settled(c)
    /\ Len(engines) = 1
    /\ engines[1].init = "resolved"

(* C2: all concurrent initialize() callers on the fresh singleton observe  *)
(* the outcome of the one bootstrap: a caller that waited by polling       *)
(* resolves if the bootstrap resolved and rejects if it rejected.          *)
C2_AllCallersSameOutcome ==
    \A b \in FreshInitializeCalls, w \in FreshInitializeCalls :
        (calls[b].role = "bootstrap" /\ calls[w].role = "waiter"
            /\ Settled(b) /\ Settled(w))
        => calls[w].result = calls[b].result

(* C3: a convert() made while the converter is not Ready is rejected with  *)
(* the not-initialized error, and the engine's convert is invoked only     *)
(* while initialized is true.                                              *)
C3_ConvertRequiresReady ==
    [][ /\ \A e \in EngineIds :
              engines'[e].convertCalls > engines[e].convertCalls => initialized
        /\ (NewCallOf("convert") /\ ~isReady)
              => TheNewCall.error = NotInitializedError ]_vars

(* C4: a destroy() made while an initialization is in flight wins: once    *)
(* both have settled, and until a new initialize() call is made,           *)
(* initialized is false and isReady() is false.                            *)
C4_DestroyDuringInitializeWins ==
    \A d \in DestroyCalls :
        (/\ InFlightAtCall(d)
         /\ Settled(d)
         /\ \A b \in BootstrapsBefore(d) : Settled(b)
         /\ \A c \in InitializeCalls : c < d)
        => (~initialized /\ ~isReady)

(* C5: in the step in which a destroy() call settles, the handle is null   *)
(* and initialized is false, whatever the engine's shutdown reported.      *)
C5_DestroyAlwaysClears ==
    [][ \A c \in 1..Len(calls') :
            (calls'[c].op = "destroy" /\ SettlesIn(c))
            => (converter' = 0 /\ ~initialized') ]_vars

(* C6: no destroy() call ever rejects.                                     *)
C6_DestroyNeverRejects ==
    \A c \in DestroyCalls : calls[c].result # "rejected"

\* the errors with which a bootstrap standing at this point can reject: the
\* error of the step it is waiting for
ErrorsOfPendingStep(call) ==
    IF call.pc = "envThrown" THEN {EnvironmentError(isolated)}
    ELSE IF call.pc = "booting" THEN {EngineBootError}
    ELSE {ProbeError(files[Len(call.probes)], o) :
              o \in {x \in ProbeOutcomes : ~ProbePasses(x)}}
         \cup (IF Len(call.probes) = Len(files)
               THEN {EngineConstructError} ELSE {})

\* the latest bootstrap was rejected and none is in flight
AfterFailedBootstrap ==
    /\ Bootstraps # {}
    /\ \E b \in Bootstraps :
          /\ \A x \in Bootstraps : x <= b
          /\ calls[b].result = "rejected"

(* C7: when a bootstrapping initialize() is rejected, it is rejected with  *)
(* the error of the step that failed and leaves initializing and           *)
(* initialized false; an initialize() call made after that failure is a    *)
(* fresh bootstrap (flag set, 0% reported, environment checked again), and *)
(* every bootstrap that boots an engine boots one it constructed itself.   *)
C7_FailedBootstrapAllowsRetry ==
    [][ /\ \A c \in Bootstraps :
              (SettlesIn(c) /\ calls'[c].result = "rejected")
              => /\ calls'[c].error \in ErrorsOfPendingStep(calls[c])
                 /\ ~initializing'
                 /\ ~initialized'
        /\ (AfterFailedBootstrap /\ NewCallOf("initialize"))
              => /\ TheNewCall.role = "bootstrap"
                 /\ initializing'
                 /\ TheNewCall.delivered = <<CheckingEvent>>
                 /\ \/ TheNewCall.pc = "envThrown"
                    \/ TheNewCall.probes = <<AssetUrl(files[1])>>
        /\ \A c \in Bootstraps :
              calls'[c].eng # 0
              => /\ engines'[calls'[c].eng].by = c
                 /\ \A b \in Bootstraps : (b # c) => calls'[b].eng # calls'[c].eng
      ]_vars

\* a bootstrap rejected by the engine's initialize() and a later call that
\* has constructed a second engine
C7_Witness ==
    \E b \in Bootstraps, r \in Bootstraps :
        /\ b < r
        /\ calls[b].error = EngineBootError
        /\ calls[r].eng = 2

(* C8: in an environment that is not cross-origin isolated or lacks        *)
(* SharedArrayBuffer, every initialize() that runs the environment check   *)
(* is rejected with the environment error, no asset is ever fetched and no *)
(* engine is ever constructed.                                             *)
C8_EnvironmentGate ==
    (~isolated \/ ~hasSAB) =>
        /\ engines = <<>>
        /\ converter = 0
        /\ \A c \in InitializeCalls :
              /\ calls[c].probes = <<>>
              /\ (c \in Bootstraps /\ Settled(c))
                    => /\ calls[c].result = "rejected"
                       /\ calls[c].error.kind = "environment"

\* isolated without SharedArrayBuffer: a bootstrap was rejected
C8_Witness ==
    /\ isolated /\ ~hasSAB
    /\ \E c \in Bootstraps : calls[c].result = "rejected"

(* C9: when the probe of an asset is answered with a non-success status or *)
(* fails at the network level, that probe is the last of its initialize(), *)
(* which is rejected with an error naming the asset and the status or the  *)
(* network error, and no engine is constructed by that call.               *)
C9_FailedProbeAborts ==
    \A c \in InitializeCalls :
        \A i \in 1..Len(calls[c].responses) :
            LET r == calls[c].responses[i]
            IN  ~(r.type = "response" /\ ResOk(r.status))
                => /\ i = Len(calls[c].responses)
                   /\ i = Len(calls[c].probes)
                   /\ calls[c].result = "rejected"
                   /\ files[i] \in Range(calls[c].error.message)
                   /\ IF r.type = "response"
                      THEN ToString(r.status) \in Range(calls[c].error.message)
                      ELSE NetworkErrorMessage[1] \in Range(calls[c].error.message)
                   /\ calls[c].eng = 0
                   /\ EnginesBy({c}) = {}

\* the data bundle answered 404 after the binary passed
C9_Witness ==
    \E c \in InitializeCalls :
        /\ Len(calls[c].responses) = 2
        /\ calls[c].responses[2] = [type |-> "response", status |-> 404]
        /\ calls[c].result = "rejected"

(* C10: an initialize() call made while the converter is Ready resolves at *)
(* once: nothing is delivered to its callback, nothing is fetched, no      *)
(* engine is constructed or initialized, and the handle, both flags and    *)
(* every other call are unchanged.                                         *)
C10_ReadyInitializeIsNoOp ==
    [][ (NewCallOf("initialize") /\ isReady)
        => /\ TheNewCall.result = "resolved"
           /\ TheNewCall.delivered = <<>>
           /\ TheNewCall.probes = <<>>
           /\ TheNewCall.eng = 0
           /\ engines' = engines
           /\ converter' = converter
           /\ initialized' = initialized
           /\ initializing' = initializing
           /\ \A c \in CallIds : calls'[c] = calls[c] ]_vars

\* the last call was such a no-op and the converter is still Ready
C10_Witness ==
    /\ isReady
    /\ calls # <<>>
    /\ calls[Len(calls)].role = "noop"
    /\ calls[Len(calls)].result = "resolved"

----------------------------------------------------------------------------
(* Claims C11 to C20                                                       *)

\* With one client awaiting every call: the converter was Ready when call d
\* was made (an earlier initialize() resolved and no destroy() has resolved
\* since)
ReadyAtCall(d) ==
    \E j \in 1..(d - 1) :
        /\ calls[j].op = "initialize"
        /\ calls[j].result = "resolved"
        /\ \A k \in (j + 1)..(d - 1) :
              ~(calls[k].op = "destroy" /\ calls[k].result = "resolved")

(* C11: with one client awaiting every call, a destroy() made from Ready   *)
(* and settled, followed by an initialize() that resolved, has brought the *)
(* converter back to Ready with an engine constructed by that initialize() *)
(* (not the one destroy() shut down), and a convert() made next is         *)
(* accepted and forwarded to that engine.                                  *)
C11_LifecycleReuse ==
    \A d \in DestroyCalls :
        LET i == d + 1
        IN  (/\ ReadyAtCall(d)
             /\ Settled(d)
             /\ i \in InitializeCalls
             /\ calls[i].result = "resolved")
            => /\ calls[i].role = "bootstrap"
               /\ calls[i].eng # 0
               /\ calls[i].eng # calls[d].eng
               /\ engines[calls[i].eng].by = i
               /\ Len(calls) = i => (isReady /\ converter = calls[i].eng)
               /\ \A v \in CallIds :
                     (v = i + 1 /\ calls[v].op = "convert")
                     => /\ calls[v].error # NotInitializedError
                        /\ calls[v].pc # "reading" => calls[v].eng = calls[i].eng

\* bootstraps that have not settled
PendingBootstraps == {c \in Bootstraps : ~Settled(c)}

(* C12: in every reachable state initialized and initializing are not both *)
(* true, the state in which the ready event is delivered to the callback   *)
(* included, and initializing is true exactly while the one bootstrapping  *)
(* initialize() call is in flight.                                         *)
C12_FlagsExclusive ==
    /\ ~(initialized /\ initializing)
    /\ initializing <=> Cardinality(PendingBootstraps) = 1
    /\ Cardinality(PendingBootstraps) <= 1

\* this step is a destroy() call clearing the fields (lines 247-248)
DestroyClearsIn ==
    \E c \in 1..Len(calls') :
        /\ calls'[c].op = "destroy"
        /\ SettlesIn(c)
        /\ calls'[c].result = "resolved"

(* C13: initialized goes from true to false only in a step of destroy():   *)
(* no initialize() call, no convert() call and no engine event clears it.  *)
C13_OnlyDestroyClears ==
    [][ (initialized /\ ~initialized') => DestroyClearsIn ]_vars

\* still initialized after a conversion failed in the engine and an
\* initialize() call returned as a no-op
C13_Witness ==
    /\ initialized
    /\ \E c \in CallIds : calls[c].error = EngineConvertError
    /\ \E c \in InitializeCalls : calls[c].role = "noop"

(* C14: once a bootstrapping initialize() has resolved, nothing more is    *)
(* delivered to its callback, whatever the engine emits afterwards and     *)
(* also after a later destroy().                                           *)
C14_SilentAfterCompletion ==
    [][ \A c \in Bootstraps :
            calls[c].result = "resolved"
            => calls'[c].delivered = calls[c].delivered ]_vars

\* the engine of a resolved bootstrap has emitted an event that was not
\* forwarded, and the converter has been destroyed since
C14_Witness ==
    \E c \in Bootstraps :
        /\ calls[c].result = "resolved"
        /\ engines[calls[c].eng].emitted >= 1
        /\ calls[c].delivered = <<CheckingEvent, LoadingEvent, ReadyEvent>>
        /\ ~initialized
        /\ converter = 0

\* the events of a sequence that are ready at 100%
ReadyAtHundred(seq) ==
    {k \in DOMAIN seq : seq[k].phase = "ready" /\ seq[k].percent = 100}

(* C15: what the callback of a resolved bootstrap has received ends with   *)
(* an event ready/100 and holds exactly one event ready/100, whatever the  *)
(* engine emitted.                                                         *)
C15_ReadyExactlyOnce ==
    \A c \in Bootstraps :
        calls[c].result = "resolved"
        => /\ calls[c].delivered # <<>>
           /\ Len(calls[c].delivered) \in ReadyAtHundred(calls[c].delivered)
           /\ Cardinality(ReadyAtHundred(calls[c].delivered)) = 1

(* C16: the percents delivered to the callback of one initialize() call    *)
(* never decrease and lie in 0..100.                                       *)
C16_PercentMonotonic ==
    \A c \in InitializeCalls :
        LET d == calls[c].delivered
        IN  /\ \A k \in DOMAIN d : d[k].percent \in 0..100
            /\ \A j \in DOMAIN d, k \in DOMAIN d :
                  j < k => d[j].percent <= d[k].percent

\* convert() calls
ConvertCalls == {c \in CallIds : calls[c].op = "convert"}

(* C17: a convert() call that fails in the engine rejects with the         *)
(* engine's error and changes neither the handle nor the two flags nor the *)
(* engine; a convert() call made on a Ready converter is accepted, and an  *)
(* accepted call that finds the handle set is forwarded to the engine.     *)
C17_FailedConvertFrame ==
    [][ /\ \A c \in ConvertCalls :
              (calls[c].pc = "converting" /\ calls'[c].result = "rejected")
              => /\ calls'[c].error = EngineConvertError
                 /\ UNCHANGED <<converter, initialized, initializing, engines>>
        /\ (NewCallOf("convert") /\ isReady)
              => (TheNewCall.pc = "reading" /\ TheNewCall.result = "pending")
        /\ \A c \in ConvertCalls :
              (calls[c].pc = "reading" /\ calls'[c].pc # "reading"
                 /\ converter # 0)
              => (calls'[c].pc = "converting" /\ calls'[c].eng = converter)
      ]_vars

\* a conversion has failed in the engine, the converter is Ready and on the
\* same engine, and a convert() call made after the failed one is resolved
C17_Witness ==
    \E c \in ConvertCalls, d \in ConvertCalls :
        /\ c < d
        /\ calls[c].error = EngineConvertError
        /\ isReady
        /\ converter = calls[c].eng
        /\ calls[d].eng = calls[c].eng
        /\ calls[d].result = "resolved"

\* what the engine returns for the file and output format of call c
OwnData(c) ==
    <<"converted", calls[c].file.payload, Ext(calls[c].file.name),
      calls[c].outputFormat, calls[c].file.name>>

(* C18: a convert() call waiting for its file's bytes is never held back   *)
(* by another conversion in flight, the request a call forwards carries    *)
(* its own payload, filename and output format, and the call resolves with *)
(* the engine's result for that request.                                   *)
C18_OverlappingConvertsIndependent ==
    \A c \in ConvertCalls :
        /\ (calls[c].pc = "reading" /\ EventLoopIdle)
              => ENABLED ArrayBufferReady(c)
        /\ calls[c].pc = "converting" \/ calls[c].result = "resolved"
              => /\ calls[c].request.data = calls[c].file.payload
                 /\ calls[c].request.filename = calls[c].file.name
                 /\ calls[c].request.outputFormat = calls[c].outputFormat
        /\ calls[c].result = "resolved"
              => /\ calls[c].blob.data = OwnData(c)
                 /\ calls[c].blob.type = "application/" \o calls[c].outputFormat

\* two conversions of different files to different formats overlap: the
\* later call has resolved while the earlier one is still in the engine
C18_Witness ==
    \E c \in ConvertCalls, d \in ConvertCalls :
        /\ c < d
        /\ calls[c].file # calls[d].file
        /\ calls[c].outputFormat # calls[d].outputFormat
        /\ calls[c].pc = "converting"
        /\ calls[d].result = "resolved"
        /\ calls[d].blob.data = OwnData(d)

(* C19: a resolved convert() returns the content and the MIME type of the  *)
(* engine's result in a buffer that is not the engine's result buffer, nor *)
(* any other engine buffer, nor the buffer returned to another call.       *)
C19_FreshBufferCopy ==
    \A c \in ConvertCalls :
        calls[c].result = "resolved"
        => LET result == EngineResult(c, calls[c].request)
           IN  /\ calls[c].blob.data = result.data
               /\ calls[c].blob.type = result.mimeType
               /\ calls[c].blob.buffer # result.buffer
               /\ \A d \in ConvertCalls :
                     /\ calls[c].blob.buffer
                           # EngineResult(d, calls[d].request).buffer
                     /\ (d # c /\ calls[d].result = "resolved")
                           => calls[c].blob.buffer # calls[d].blob.buffer

\* two conversions have resolved
C19_Witness ==
    \E c \in ConvertCalls, d \in ConvertCalls :
        /\ c # d
        /\ calls[c].result = "resolved"
        /\ calls[d].result = "resolved"
        /\ calls[c].blob.type = "application/pdf"

(* C20: the factory has constructed at most one converter, every call of   *)
(* it returned that one, and the converter's base path is the one of the   *)
(* first call, the default if that call gave none.                         *)
C20_FactorySingleton ==
    /\ Len(instances) <= 1
    /\ Len(factoryCalls) > 0 => Len(instances) = 1 /\ converterInstance = 1
    /\ \A k \in DOMAIN factoryCalls : factoryCalls[k].returned = 1
    /\ Len(factoryCalls) > 0
          => instances[1].basePath =
                IF factoryCalls[1].basePath \in {Undefined, ""}
                THEN LIBREOFFICE_PATH
                ELSE factoryCalls[1].basePath

\* three calls, the later ones with other base paths than the first
C20_Witness ==
    /\ Len(factoryCalls) = 3
    /\ factoryCalls[1].basePath = "/lo/"
    /\ factoryCalls[2].basePath = "/cdn/office/"
    /\ factoryCalls[3].basePath = Undefined
    /\ instances = <<[basePath |-> "/lo/"]>>

----------------------------------------------------------------------------
(* Claims C21 to C30                                                       *)

\* the URLs of the required assets, in the order of line 155
RequiredUrls ==
    [i \in 1..Len(files) |-> basePath \o files[i] \o "?v=" \o ASSET_VERSION]

(* C21: every engine was constructed by an initialize() call that had      *)
(* passed the isolation and SharedArrayBuffer check and had probed every   *)
(* required asset with success, and when a convert() call is forwarded to  *)
(* an engine, that engine's initialize() has completed.                    *)
C21_ChecksPrecedeUse ==
    [][ /\ \A e \in 1..Len(engines') :
              LET b == calls'[engines'[e].by]
              IN  /\ isolated /\ hasSAB
                  /\ b.probes = RequiredUrls
                  /\ Len(b.responses) = Len(files)
                  /\ \A i \in DOMAIN b.responses : ProbePasses(b.responses[i])
        /\ \A c \in ConvertCalls :
              (calls[c].pc = "reading" /\ calls'[c].pc = "converting")
              => engines[calls'[c].eng].init = "resolved"
      ]_vars

\* the extension of a filename: the text after its last dot, lower-cased,
\* and nothing when it has no dot
ExtensionOf(name) ==
    IF \E i \in DOMAIN name : name[i] = "."
    THEN ToLowerCase(LastSegment(name))
    ELSE <<>>

(* C22: the input format of every request forwarded to the engine is the   *)
(* extension of the source filename, lower-cased, and is empty when the    *)
(* filename has no extension, a filename without any dot included.         *)
C22_InputFormatIsExtension ==
    \A c \in ConvertCalls :
        calls[c].eng # 0
        => calls[c].request.inputFormat = ExtensionOf(calls[c].file.name)

\* convert() calls that passed the guard of line 195 and are past line 203
PastReading ==
    {c \in ConvertCalls : calls[c].pc = "converting"
                             \/ (Settled(c) /\ calls[c].error # NotInitializedError)}

\* no initialize() call boots more than one engine or boots it twice or
\* probes an asset twice, and the engines' convert primitive has been
\* invoked once for each call forwarded to it
NoRepeatedWork ==
    /\ \A e \in EngineIds : engines[e].initCalls <= 1
    /\ \A c \in Bootstraps :
          /\ Cardinality(EnginesBy({c})) <= 1
          /\ Len(calls[c].probes) <= Len(files)
          /\ \A i \in DOMAIN calls[c].probes, j \in DOMAIN calls[c].probes :
                i # j => calls[c].probes[i] # calls[c].probes[j]
    /\ \A e \in EngineIds :
          engines[e].convertCalls
              = Cardinality({c \in ConvertCalls : calls[c].eng = e})

(* C23: a bootstrapping initialize() invokes the engine's initialize() at  *)
(* most once and probes each asset at most once, and every accepted        *)
(* convert() call invokes the engine's convert primitive exactly once.     *)
C23_NoRetryExactlyOnce ==
    /\ NoRepeatedWork
    /\ \A c \in PastReading : calls[c].eng # 0

(* C24: in every reachable state initialized implies that the engine      *)
(* handle is not null, so that no initialize() call returns as a no-op     *)
(* while isReady() is false and convert() is rejected as not initialized.  *)
C24_InitializedImpliesHandle ==
    initialized => converter # 0

(* C25: when the handle is overwritten with a newly constructed engine or  *)
(* set to null, the wrapper has invoked destroy() on the engine the handle *)
(* referred to.                                                            *)
C25_NoEngineLeaked ==
    [][ (converter # 0 /\ converter' # converter)
            => engines[converter].destroyCalls >= 1 ]_vars

(* C26: once a bootstrapping initialize() has rejected, nothing more is    *)
(* delivered to its callback, whatever the failed engine emits afterwards. *)
C26_SilentAfterRejection ==
    [][ \A c \in Bootstraps :
            calls[c].result = "rejected"
            => calls'[c].delivered = calls[c].delivered ]_vars

(* C27: every initialize() caller that waits on an in-flight               *)
(* initialization eventually returns, when bootstraps keep taking their    *)
(* steps, the polling timer keeps firing and finitely many calls are made. *)
C27_WaitersReturn ==
    \A c \in 1..MaxCalls :
        (c \in CallIds /\ calls[c].pc = "polling")
            ~> (c \in CallIds /\ calls[c].result # "pending")

\* a caller that polled has returned after an earlier bootstrap failed in
\* the engine
C27_Witness ==
    \E b \in Bootstraps, c \in InitializeCalls :
        /\ b < c
        /\ calls[b].error = EngineBootError
        /\ calls[c].role = "waiter"
        /\ calls[c].result = "resolved"

\* initialize() calls that joined an initialization in flight
Waiters == {c \in InitializeCalls : calls[c].role = "waiter"}

(* C28: the callback of a caller that joined an in-flight initialization   *)
(* is never invoked, neither with an engine event nor with the final       *)
(* ready/100 event: only the bootstrapping caller receives progress.       *)
C28_WaitersGetNoProgress ==
    \A c \in Waiters : calls[c].delivered = <<>>

\* a waiter has returned with nothing delivered, while the bootstrap it
\* joined received the wrapper's three events and a forwarded engine event
C28_Witness ==
    \E b \in Bootstraps, c \in Waiters :
        /\ b < c
        /\ calls[c].epoch = calls[b].epoch
        /\ calls[b].result = "resolved"
        /\ calls[c].result = "resolved"
        /\ calls[c].delivered = <<>>
        /\ Len(calls[b].delivered) = 4
        /\ calls[b].delivered[4] = ReadyEvent

(* C29: under every interleaving of destroy() calls with each other and   *)
(* with initialize(), the engine's destroy() is invoked at most once on    *)
(* each engine, and a destroy() call that sets the handle to null has shut *)
(* down the engine the handle referred to.                                 *)
C29_DestroyOncePerEngine ==
    [][ /\ \A e \in 1..Len(engines') : engines'[e].destroyCalls <= 1
        /\ (converter # 0 /\ converter' = 0)
              => \E c \in DestroyCalls :
                    /\ calls[c].pc = "destroying"
                    /\ calls'[c].result = "resolved"
                    /\ calls[c].eng = converter
      ]_vars

\* the required assets in the order they are to be probed, and the URL of
\* one under the singleton's base path
OrderedAssets ==
    <<"soffice.wasm", "soffice.data", "soffice.js", "soffice.worker.js",
      "browser.worker.global.js">>
VersionedUrl(name) ==
    instances[1].basePath \o name \o "?v=" \o "20240212-3"

(* C30: within one environment check the probes go out one at a time, in   *)
(* the order soffice.wasm, soffice.data, soffice.js, soffice.worker.js,    *)
(* browser.worker.global.js, each at basePath + name + '?v=' + version,    *)
(* the URL the engine is given for that asset; after the first probe that  *)
(* fails no further asset is requested.                                    *)
C30_ProbesInOrder ==
    \A c \in Bootstraps :
        LET p == calls[c].probes
            r == calls[c].responses
        IN  /\ Len(p) <= Len(OrderedAssets)
            /\ \A i \in DOMAIN p : p[i] = VersionedUrl(OrderedAssets[i])
            /\ Len(r) <= Len(p) /\ Len(p) <= Len(r) + 1
            /\ \A i \in DOMAIN r : i < Len(p) => ProbePasses(r[i])
            /\ \A i \in DOMAIN r :
                  ~ProbePasses(r[i]) => calls[c].result = "rejected"
            /\ \A e \in EnginesBy({c}) :
                  /\ Len(p) = Len(OrderedAssets)
                  /\ engines[e].config.sofficeWasm = p[1]
                  /\ engines[e].config.sofficeData = p[2]
                  /\ engines[e].config.sofficeJs = p[3]
                  /\ engines[e].config.sofficeWorkerJs = p[4]
                  /\ engines[e].config.browserWorkerJs = p[5]

\* under a base path given to the factory, one check stopped at its third
\* probe and a later one went through to an engine
C30_Witness ==
    /\ instances[1].basePath = "/cdn/office/"
    /\ \E b \in Bootstraps, c \in Bootstraps :
          /\ calls[b].result = "rejected"
          /\ Len(calls[b].probes) = 3
          /\ calls[b].probes[3] = "/cdn/office/soffice.js?v=20240212-3"
          /\ EnginesBy({c}) # {}
          /\ \A e \in EnginesBy({c}) :
                engines[e].config.browserWorkerJs
                    = "/cdn/office/browser.worker.global.js?v=20240212-3"

====
